---- MODULE Spec2Model ----
(***************************************************************************)
(* Model of the SurrealDB chat application: one Chat component (one        *)
(* browser page) with its SurrealDBService singleton, the database it      *)
(* talks to (message table, connection handles, live queries) and the      *)
(* other users of the same database.                                       *)
(*                                                                         *)
(* Spec    : the page as the user drives it (mount, type, join, send,      *)
(*           unmount) with every await a separate step.                    *)
(* SpecApi : the exported service object driven directly by a caller.      *)
(* SpecDrop: the page, with a network that can close the connection and    *)
(*           with every response and continuation treated fairly.          *)
(* SpecOverlap : two connect() calls of the service that overlap.          *)
(* SpecGet : getMessages(limit) applied to the stored histories.           *)
(*                                                                         *)
(* Strings are sequences of characters, so that trim() is computed.        *)
(* A request's effect at the database and the arrival of its response are  *)
(* one step: the responses and the live notifications of one connection    *)
(* arrive in order, and the code after an await runs before the next       *)
(* message of the socket is handled.                                       *)
(***************************************************************************)
EXTENDS Integers, Sequences, FiniteSets, TLC

\* ---- bounds of the model ----
MaxMsgs == 2
MaxTime == 2
MaxSubs == 2
MaxApiMsgs == 1
MaxApiSubs == 1
MaxStored == 3
MaxLimit == 2
MaxHandles == 3

\* ---- program constants ----
DefaultLimit == 50

connectionConfigs ==
  << [url |-> "ws://localhost:8000/rpc",   type |-> "WebSocket"],
     [url |-> "http://localhost:8000/rpc", type |-> "HTTP"],
     [url |-> "ws://127.0.0.1:8000/rpc",   type |-> "WebSocket"],
     [url |-> "http://127.0.0.1:8000/rpc", type |-> "HTTP"],
     [url |-> "ws://localhost:8000",       type |-> "WebSocket-Basic"],
     [url |-> "http://localhost:8000",     type |-> "HTTP-Basic"] >>

\* ---- inputs ----
SP == " "
Names == { <<>>, <<SP>>, <<"a">> }
Texts == { <<>>, <<SP>>, <<SP, "h">> }
PeerName == <<"b">>
PeerText == <<"y">>
ApiArgs == { [u |-> <<"a">>, m |-> <<"h">>], [u |-> <<>>, m |-> <<>>] }
Times == 1..MaxTime

VARIABLES
  log,             \* database: the records of table messages, in creation order
  handles,         \* database: status of every Surreal handle ever constructed
  lives,           \* database: the live queries ever registered
  tableDefined,    \* database: table messages is defined
  db,              \* service: this.db, index into handles
  connected,       \* service: this.connected
  connPc,          \* service: position of the running connect() call
  closing,         \* service: disconnect() is awaiting db.close()
  mounted,         \* Chat: "no" (not rendered yet), "yes", "gone" (unmounted)
  loading,         \* Chat: loading state
  isConnected,     \* Chat: isConnected state
  isJoined,        \* Chat: isJoined state
  username,        \* Chat: username state (the name input)
  messages,        \* Chat: messages state
  subscriptionRef, \* Chat: subscriptionRef.current, 0 for null
  initPc,          \* Chat: position of initConnection
  joinCalls,       \* Chat: joinChat calls awaiting subscribeToMessages, by handle
  now,             \* the page's wall clock (new Date())
  cursor,          \* length of the log when the history snapshot was read, -1 if none
  ret,             \* outcome of the last completed call made by the user or caller
  connPc2,         \* service: position of a second connect() call that overlaps the first
  thrown,          \* the causes named by the error the last rejected connect() threw
  returned,        \* the array the last getMessages() call returned
  asked            \* the limit of the last getMessages() call

svcVars  == <<db, connected, connPc, closing>>
dbVars   == <<log, handles, lives, tableDefined>>
chatVars == <<mounted, loading, isConnected, isJoined, username, messages,
              subscriptionRef, initPc, joinCalls, cursor>>
callVars == <<connPc2, thrown, returned, asked>>
vars == <<log, handles, lives, tableDefined, db, connected, connPc, closing,
          mounted, loading, isConnected, isJoined, username, messages,
          subscriptionRef, initPc, joinCalls, now, cursor, ret,
          connPc2, thrown, returned, asked>>

\* ---- String.prototype.trim ----
RECURSIVE TrimStart(_)
TrimStart(s) ==
  IF s # <<>> /\ Head(s) = SP THEN TrimStart(Tail(s)) ELSE s

RECURSIVE TrimEnd(_)
TrimEnd(s) ==
  IF s # <<>> /\ s[Len(s)] = SP THEN TrimEnd(SubSeq(s, 1, Len(s) - 1)) ELSE s

Trim(s) == TrimEnd(TrimStart(s))

\* !s.trim() : the empty string is falsy
Blank(s) == Trim(s) = <<>>

\* ---- the ChatMessage record created by sendMessage ----
ChatMessage(id, u, m, t) ==
  [id |-> id, username |-> u, message |-> m, timestamp |-> t]

\* ---- Array.prototype.sort with the timestamp comparator (stable) ----
RECURSIVE InsertByTimestamp(_, _)
InsertByTimestamp(x, s) ==
  IF s = <<>> THEN <<x>>
  ELSE IF s[Len(s)].timestamp - x.timestamp <= 0 THEN Append(s, x)
  ELSE Append(InsertByTimestamp(x, SubSeq(s, 1, Len(s) - 1)), s[Len(s)])

RECURSIVE SortByTimestamp(_)
SortByTimestamp(s) ==
  IF s = <<>> THEN <<>>
  ELSE InsertByTimestamp(s[Len(s)], SortByTimestamp(SubSeq(s, 1, Len(s) - 1)))

\* ---- Array.prototype.slice(-limit); slice(-0) is slice(0), the whole array ----
SliceLast(s, limit) ==
  IF limit = 0 \/ Len(s) <= limit THEN s
  ELSE SubSeq(s, Len(s) - limit + 1, Len(s))

\* ---- db.select('messages'): the records in record-id order. Record ids
\* are random, so the order is any permutation of the creation order ----
SelectOrders(s) ==
  { p \in [1..Len(s) -> 1..Len(s)] : \A i, j \in 1..Len(s) : p[i] = p[j] => i = j }

Selected(s, p) == [i \in 1..Len(s) |-> s[p[i]]]

\* ---- getMessages(limit) on a successful select ----
getMessages(result, limit) == SliceLast(SortByTimestamp(result), limit)

\* ---- database side of the requests ----
\* a new record is pushed to every live query that is still registered
Notify(ls, rec) ==
  [q \in DOMAIN ls |->
     IF ls[q].alive THEN [ls[q] EXCEPT !.queue = Append(@, rec)] ELSE ls[q]]

\* closing a connection ends the live queries registered on it
CloseLives(ls, h) ==
  [q \in DOMAIN ls |->
     IF ls[q].h = h THEN [ls[q] EXCEPT !.alive = FALSE, !.queue = <<>>] ELSE ls[q]]

\* KILL of one live query: its listener is removed with it. Notifications
\* sent before the kill was handled reach the client before the kill's
\* response; they are dropped here, which only removes deliveries that
\* happen before unsubscribe returns.
KillLive(ls, q) ==
  [ls EXCEPT ![q] = [@ EXCEPT !.alive = FALSE, !.queue = <<>>]]

NewLive(h) == [h |-> h, alive |-> TRUE, queue |-> <<>>, invoked |-> 0, unsub |-> 0]

Ready(h) == h \in DOMAIN handles /\ handles[h] = "ready"

\* the connections that are open at the database
OpenHandles == {h \in DOMAIN handles : handles[h] \notin {"new", "closed"}}

Idle == [cand |-> 0, stage |-> "idle", h |-> 0, errors |-> <<>>, why |-> "none"]

Init ==
  /\ log = <<>>
  /\ handles = <<"new">>
  /\ lives = <<>>
  /\ tableDefined \in BOOLEAN
  /\ db = 1
  /\ connected = FALSE
  /\ connPc = Idle
  /\ closing = FALSE
  /\ mounted = "no"
  /\ loading = FALSE
  /\ isConnected = FALSE
  /\ isJoined = FALSE
  /\ username = <<>>
  /\ messages = <<>>
  /\ subscriptionRef = 0
  /\ initPc = [pc |-> "idle", h |-> 0]
  /\ joinCalls = <<>>
  /\ now = 1
  /\ cursor = -1
  /\ ret = "none"
  /\ connPc2 = Idle
  /\ thrown = <<>>
  /\ returned = <<>>
  /\ asked = DefaultLimit


\* ---- React: a state setter does nothing once the component is unmounted ----
SetState(cur, v) == IF mounted = "yes" THEN v ELSE cur

\* ======================= SurrealDBService.connect =======================
NumConfigs == Len(connectionConfigs)

\* what a stage's request needs of the handle it was issued on, and leaves
StageNeeds(stage) ==
  CASE stage = "connect" -> "new"
    [] stage = "signin"  -> "connected"
    [] stage = "use"     -> "signedin"
    [] OTHER             -> "ready"

StageLeaves(stage) ==
  CASE stage = "connect" -> "connected"
    [] stage = "signin"  -> "signedin"
    [] OTHER             -> "ready"

NextStage(stage) ==
  CASE stage = "connect" -> "signin"
    [] stage = "signin"  -> "use"
    [] stage = "use"     -> "info"
    [] OTHER             -> "schema"

\* how far a handle has got: a request is served once the steps before it are done
Rank(status) ==
  CASE status = "new"       -> 0
    [] status = "connected" -> 1
    [] status = "signedin"  -> 2
    [] status = "ready"     -> 3
    [] OTHER                -> -1

\* the status of a handle after a request of the stage was served on it
Upgrade(status, stage) ==
  IF Rank(status) >= Rank(StageLeaves(stage)) THEN status ELSE StageLeaves(stage)

\* errors.push(`${config.url} (${config.type}): ${errorMessage}`): the entry of
\* the candidate that failed; the text of the library's message is left out
ErrorEntry(k) ==
  [url |-> connectionConfigs[k].url, type |-> connectionConfigs[k].type]

\* new Surreal(): the new object takes the name of a handle that was never
\* opened or is closed and that nothing refers to any more, else a new name
Referenced ==
  {joinCalls[i] : i \in DOMAIN joinCalls} \cup {lives[q].h : q \in DOMAIN lives}
    \cup {initPc.h}

\* the handle on which a connect() call has a request in flight
InFlight(c) == IF c.stage = "idle" THEN {} ELSE {c.h}

FreeHandles(other) ==
  {h \in DOMAIN handles : /\ handles[h] \in {"new", "closed"}
                          /\ h \notin Referenced \cup InFlight(other)}

NewHandle(other) ==
  IF FreeHandles(other) = {} THEN Len(handles) + 1
  ELSE CHOOSE h \in FreeHandles(other) : \A g \in FreeHandles(other) : h <= g

\* ---- one connect() call: c is its position, cNext its position after the
\* step, other the position of the connect() call that overlaps it ----
\* top of the loop body: this.db = new Surreal(); await this.db.connect(url)
\* (the model holds at most MaxHandles handles that are open or in use)
AttemptStart(k, errs, other, cNext) ==
  /\ NewHandle(other) <= MaxHandles
  /\ handles' = [h \in DOMAIN handles \cup {NewHandle(other)} |->
                   IF h = NewHandle(other) THEN "new" ELSE handles[h]]
  /\ db' = NewHandle(other)
  /\ cNext = [cand |-> k, stage |-> "connect", h |-> NewHandle(other),
              errors |-> errs, why |-> "none"]

\* db.connect, signin, use or the INFO DB query resolved; the next request is
\* issued on this.db as it is now
AttemptAdvance(c, cNext) ==
  /\ c.stage \in {"connect", "signin", "use", "info"}
  /\ Rank(handles[c.h]) >= Rank(StageNeeds(c.stage))
  /\ handles' = [handles EXCEPT ![c.h] = Upgrade(@, c.stage)]
  /\ connected' = IF c.stage = "use" THEN TRUE ELSE connected
  /\ cNext = [c EXCEPT !.stage = NextStage(c.stage), !.h = db]

\* why the request of a stage can be rejected: DEFINE TABLE messages is
\* refused by a server that has the table already, any request can fail
Rejections(stage) ==
  IF stage = "schema" /\ tableDefined THEN {"already exists", "rejected"}
  ELSE {"rejected"}

\* a request of the attempt rejected: catch block, errors.push,
\* await this.db.close(). initializeSchema has no catch of its own, its
\* rejection is the rejection of the attempt.
AttemptFail(c, cNext) ==
  /\ c.stage \in {"connect", "signin", "use", "info", "schema"}
  /\ handles' = [handles EXCEPT ![db] = "closed"]
  /\ lives' = CloseLives(lives, db)
  /\ \E why \in Rejections(c.stage) :
       cNext = [c EXCEPT !.stage = "closing", !.h = db, !.why = why,
                         !.errors = Append(@, ErrorEntry(c.cand))]

\* initializeSchema resolved: return
AttemptReturns(c, cNext) ==
  /\ c.stage = "schema"
  /\ Ready(c.h)
  /\ tableDefined' = TRUE
  /\ cNext = Idle

\* the loop ran out of candidates: throw finalError
AttemptThrows(c, cNext) ==
  /\ c.stage = "closing"
  /\ c.cand = NumConfigs
  /\ cNext = Idle

\* what finalError names: `Last error: ${errors[errors.length - 1] || 'Unknown'}`
finalError(errors) ==
  IF errors = <<>> THEN <<[url |-> "Unknown", type |-> "Unknown"]>>
  ELSE <<errors[Len(errors)]>>

\* ---- the connect() call of the page or of the first caller ----
StartAttempt(k) == AttemptStart(k, connPc.errors, connPc2, connPc')

ConnectAdvance ==
  /\ AttemptAdvance(connPc, connPc')
  /\ UNCHANGED <<log, lives, db, closing, now, ret>>
  /\ UNCHANGED chatVars
  /\ UNCHANGED callVars
  /\ UNCHANGED tableDefined

ConnectFail ==
  /\ AttemptFail(connPc, connPc')
  /\ UNCHANGED <<log, db, connected, closing, now, ret>>
  /\ UNCHANGED chatVars
  /\ UNCHANGED callVars
  /\ UNCHANGED tableDefined

\* continue, with the loop index advanced twice
ConnectRetrySkipping ==
  /\ connPc.stage = "closing"
  /\ connPc.cand + 1 < NumConfigs
  /\ StartAttempt(connPc.cand + 2)
  /\ UNCHANGED <<log, lives, connected, closing, now, ret>>
  /\ UNCHANGED chatVars
  /\ UNCHANGED callVars
  /\ UNCHANGED tableDefined

\* continue: the next candidate
ConnectRetry ==
  /\ connPc.stage = "closing"
  /\ connPc.cand < NumConfigs
  /\ StartAttempt(connPc.cand + 1)
  /\ UNCHANGED <<log, lives, connected, closing, now, ret>>
  /\ UNCHANGED chatVars
  /\ UNCHANGED callVars
  /\ UNCHANGED tableDefined

ConnectReturns == AttemptReturns(connPc, connPc')

ConnectThrows == AttemptThrows(connPc, connPc')

\* ======================= SurrealDBService.disconnect =======================
\* await this.db.close() resolved: this.connected = false
DisconnectReturn ==
  /\ closing
  /\ closing' = FALSE
  /\ connected' = FALSE
  /\ UNCHANGED <<log, handles, lives, db, connPc, now, ret>>
  /\ UNCHANGED chatVars
  /\ UNCHANGED callVars
  /\ UNCHANGED tableDefined

\* ======================= the other users of the database =======================
Created(u, m, t) == ChatMessage(Len(log) + 1, u, m, t)

PeerSend ==
  /\ Len(log) < MaxMsgs
  /\ \E t \in Times :
       /\ log' = Append(log, Created(PeerName, PeerText, t))
       /\ lives' = Notify(lives, Created(PeerName, PeerText, t))
  /\ UNCHANGED <<handles, now, ret>>
  /\ UNCHANGED svcVars
  /\ UNCHANGED chatVars
  /\ UNCHANGED callVars
  /\ UNCHANGED tableDefined

\* ======================= Chat =======================
\* useEffect: initConnection() runs up to its first await inside connect()
Mount ==
  /\ mounted = "no"
  /\ connPc = Idle
  /\ mounted' = "yes"
  /\ loading' = TRUE
  /\ initPc' = [pc |-> "connect", h |-> 0]
  /\ StartAttempt(1)
  /\ UNCHANGED <<log, lives, connected, closing, now, ret>>
  /\ UNCHANGED <<isConnected, isJoined, username, messages, subscriptionRef,
                 joinCalls, cursor>>
  /\ UNCHANGED callVars
  /\ UNCHANGED tableDefined

\* connect() resolved: setIsConnected(true), then getMessages() up to db.select
ChatConnectResolved ==
  /\ initPc.pc = "connect"
  /\ ConnectReturns
  /\ IF connected
       THEN /\ isConnected' = SetState(isConnected, TRUE)
            /\ initPc' = [pc |-> "getMessages", h |-> db]
            /\ UNCHANGED loading
       ELSE /\ isConnected' = SetState(isConnected, FALSE)
            /\ loading' = SetState(loading, FALSE)
            /\ initPc' = [pc |-> "done", h |-> 0]
  /\ UNCHANGED <<log, handles, lives, db, connected, closing, now, ret>>
  /\ UNCHANGED <<mounted, isJoined, username, messages, subscriptionRef,
                 joinCalls, cursor>>
  /\ UNCHANGED callVars

\* connect() rejected: catch, finally
ChatConnectRejected ==
  /\ initPc.pc = "connect"
  /\ ConnectThrows
  /\ isConnected' = SetState(isConnected, FALSE)
  /\ loading' = SetState(loading, FALSE)
  /\ initPc' = [pc |-> "done", h |-> 0]
  /\ UNCHANGED <<log, handles, lives, db, connected, closing, now, ret>>
  /\ UNCHANGED <<mounted, isJoined, username, messages, subscriptionRef,
                 joinCalls, cursor>>
  /\ UNCHANGED callVars
  /\ UNCHANGED tableDefined

\* db.select settled: getMessages returns the sorted tail, or [] on an error
GetMessagesReturn ==
  /\ initPc.pc = "getMessages"
  /\ \E ok \in BOOLEAN :
       IF ok /\ Ready(initPc.h)
         THEN \E p \in SelectOrders(log) :
                /\ messages' = SetState(messages,
                                 getMessages(Selected(log, p), DefaultLimit))
                /\ cursor' = Len(log)
         ELSE /\ messages' = SetState(messages, <<>>)
              /\ UNCHANGED cursor
  /\ loading' = SetState(loading, FALSE)
  /\ initPc' = [pc |-> "done", h |-> 0]
  /\ UNCHANGED <<log, handles, lives, now, ret>>
  /\ UNCHANGED svcVars
  /\ UNCHANGED <<mounted, isConnected, isJoined, username, subscriptionRef, joinCalls>>
  /\ UNCHANGED callVars
  /\ UNCHANGED tableDefined

\* the user-name screen is rendered
JoinFormShown == mounted = "yes" /\ ~loading /\ isConnected /\ ~isJoined

\* the main chat screen is rendered
ChatShown == mounted = "yes" /\ ~loading /\ isConnected /\ isJoined

\* onChange of the name input
SetUsername ==
  /\ JoinFormShown
  /\ \E v \in Names : v # username /\ username' = v
  /\ UNCHANGED <<log, handles, lives, now, ret>>
  /\ UNCHANGED svcVars
  /\ UNCHANGED <<mounted, loading, isConnected, isJoined, messages,
                 subscriptionRef, initPc, joinCalls, cursor>>
  /\ UNCHANGED callVars
  /\ UNCHANGED tableDefined

\* the guard of joinChat
JoinRefused == Blank(username) \/ ~isConnected

\* the form is submitted: joinChat() up to db.live
JoinSubmit ==
  /\ JoinFormShown
  /\ (~JoinRefused /\ connected) => Len(joinCalls) < MaxSubs
  /\ IF JoinRefused \/ ~connected
       THEN ret' = "void" /\ UNCHANGED joinCalls
       ELSE joinCalls' = Append(joinCalls, db) /\ UNCHANGED ret
  /\ UNCHANGED <<log, handles, lives, now>>
  /\ UNCHANGED svcVars
  /\ UNCHANGED <<mounted, loading, isConnected, isJoined, username, messages,
                 subscriptionRef, initPc, cursor>>
  /\ UNCHANGED callVars
  /\ UNCHANGED tableDefined

Without(s, i) == SubSeq(s, 1, i - 1) \o SubSeq(s, i + 1, Len(s))

\* db.live settled for one joinChat call, with setIsJoined(true) moved out of
\* the try block
LiveReturnUnchecked ==
  /\ \E i \in DOMAIN joinCalls, ok \in BOOLEAN :
       /\ joinCalls' = Without(joinCalls, i)
       /\ isJoined' = SetState(isJoined, TRUE)
       /\ IF ok /\ Ready(joinCalls[i])
            THEN /\ lives' = Append(lives, NewLive(joinCalls[i]))
                 /\ subscriptionRef' = Len(lives) + 1
            ELSE UNCHANGED <<lives, subscriptionRef>>
  /\ ret' = "void"
  /\ UNCHANGED <<log, handles, now>>
  /\ UNCHANGED svcVars
  /\ UNCHANGED <<mounted, loading, isConnected, username, messages, initPc, cursor>>
  /\ UNCHANGED callVars
  /\ UNCHANGED tableDefined

\* db.live settled for one joinChat call
LiveReturn ==
  /\ \E i \in DOMAIN joinCalls, ok \in BOOLEAN :
       /\ joinCalls' = Without(joinCalls, i)
       /\ IF ok /\ Ready(joinCalls[i])
            THEN /\ lives' = Append(lives, NewLive(joinCalls[i]))
                 /\ subscriptionRef' = Len(lives) + 1
                 /\ isJoined' = SetState(isJoined, TRUE)
            ELSE UNCHANGED <<lives, subscriptionRef, isJoined>>
  /\ ret' = "void"
  /\ UNCHANGED <<log, handles, now>>
  /\ UNCHANGED svcVars
  /\ UNCHANGED <<mounted, loading, isConnected, username, messages, initPc, cursor>>
  /\ UNCHANGED callVars
  /\ UNCHANGED tableDefined

\* the guard of Chat's sendMessage
SendRefused(text) == Blank(text) \/ ~isJoined \/ ~isConnected

\* the message form is submitted: sendMessage(e) with its db.create
SendSubmit ==
  /\ ChatShown
  /\ \E text \in Texts, t \in now..MaxTime, ok \in BOOLEAN :
       /\ ~SendRefused(text) => Len(log) < MaxMsgs
       /\ IF ~SendRefused(text) /\ connected /\ ok /\ Ready(db)
            THEN /\ log' = Append(log, Created(username, Trim(text), t))
                 /\ lives' = Notify(lives, Created(username, Trim(text), t))
                 /\ now' = t
            ELSE UNCHANGED <<log, lives, now>>
  /\ ret' = "void"
  /\ UNCHANGED handles
  /\ UNCHANGED svcVars
  /\ UNCHANGED chatVars
  /\ UNCHANGED callVars
  /\ UNCHANGED tableDefined

\* a live notification arrives: the callback of joinChat appends it
Deliver ==
  /\ \E q \in DOMAIN lives :
       /\ lives[q].alive
       /\ lives[q].queue # <<>>
       /\ lives' = [lives EXCEPT ![q] = [@ EXCEPT !.queue = Tail(@),
                                                   !.invoked = @ + 1]]
       /\ messages' = SetState(messages, Append(messages, Head(lives[q].queue)))
  /\ UNCHANGED <<log, handles, now, ret>>
  /\ UNCHANGED svcVars
  /\ UNCHANGED <<mounted, loading, isConnected, isJoined, username,
                 subscriptionRef, initPc, joinCalls, cursor>>
  /\ UNCHANGED callVars
  /\ UNCHANGED tableDefined

\* db.kill(queryUuid) on this.db
Killed(ls, q, ok) ==
  IF ok /\ Ready(db) /\ q \in DOMAIN ls /\ ls[q].h = db THEN KillLive(ls, q) ELSE ls

\* the effect cleanup: unsubscribe(ref) not awaited, then disconnect()
Unmount ==
  /\ mounted = "yes"
  /\ mounted' = "gone"
  /\ \E ok \in BOOLEAN :
       LET ls == IF subscriptionRef # 0 THEN Killed(lives, subscriptionRef, ok)
                 ELSE lives
       IN IF connected
            THEN /\ handles' = [handles EXCEPT ![db] = "closed"]
                 /\ lives' = CloseLives(ls, db)
                 /\ closing' = TRUE
            ELSE /\ lives' = ls
                 /\ UNCHANGED <<handles, closing>>
  /\ UNCHANGED <<log, db, connected, connPc, now, ret>>
  /\ UNCHANGED <<loading, isConnected, isJoined, username, messages,
                 subscriptionRef, initPc, joinCalls, cursor>>
  /\ UNCHANGED callVars
  /\ UNCHANGED tableDefined

Next ==
  \/ Mount
  \/ ConnectAdvance
  \/ ConnectFail
  \/ ConnectRetry
  \/ ChatConnectResolved
  \/ ChatConnectRejected
  \/ GetMessagesReturn
  \/ SetUsername
  \/ JoinSubmit
  \/ LiveReturn
  \/ SendSubmit
  \/ Deliver
  \/ PeerSend
  \/ Unmount
  \/ DisconnectReturn

Spec == Init /\ [][Next]_vars


\* ======================= the page with a network that fails =======================
\* the connection that connect() established is lost: the socket is closed
\* from outside and its live queries end with it. No handler of the service
\* or of the page is registered for this, so their fields stay as they are.
Drop ==
  /\ mounted = "yes"
  /\ isConnected
  /\ connPc = Idle
  /\ Ready(db)
  /\ handles' = [handles EXCEPT ![db] = "closed"]
  /\ lives' = CloseLives(lives, db)
  /\ UNCHANGED <<log, now, ret>>
  /\ UNCHANGED svcVars
  /\ UNCHANGED chatVars
  /\ UNCHANGED callVars
  /\ UNCHANGED tableDefined

NextDrop ==
  \/ Next
  \/ Drop

\* every response arrives and every continuation of the page and of the
\* service runs; the user, the other users and the network are not obliged
\* to do anything
Responsive ==
  /\ WF_vars(ConnectAdvance \/ ConnectFail)
  /\ WF_vars(ConnectRetry)
  /\ WF_vars(ChatConnectResolved)
  /\ WF_vars(ChatConnectRejected)
  /\ WF_vars(GetMessagesReturn)
  /\ WF_vars(LiveReturn)
  /\ WF_vars(Deliver)
  /\ WF_vars(DisconnectReturn)

SpecDrop == Init /\ [][NextDrop]_vars /\ Responsive


\* ======================= the service called directly =======================
\* The caller calls connect() when no connection is open, and makes its other
\* calls between connect() calls, as Chat does, but may call disconnect() at
\* any time, as the effect cleanup does.
\* The caller's clock stands still: its records carry one timestamp.
\* a caller of the exported surrealDB object: connect()
ApiConnect ==
  /\ mounted = "no"
  /\ connPc = Idle
  /\ OpenHandles = {}
  /\ StartAttempt(1)
  /\ UNCHANGED <<log, lives, connected, closing, now, ret>>
  /\ UNCHANGED chatVars
  /\ UNCHANGED callVars
  /\ UNCHANGED tableDefined

ApiConnectResolved ==
  /\ initPc.pc = "idle"
  /\ ConnectReturns
  /\ ret' = "ok"
  /\ UNCHANGED <<log, handles, lives, db, connected, closing, now>>
  /\ UNCHANGED chatVars
  /\ UNCHANGED callVars

ApiConnectRejected ==
  /\ initPc.pc = "idle"
  /\ ConnectThrows
  /\ ret' = "ConnectError"
  /\ thrown' = finalError(connPc.errors)
  /\ UNCHANGED <<log, handles, lives, db, connected, closing, now>>
  /\ UNCHANGED chatVars
  /\ UNCHANGED <<connPc2, returned, asked>>
  /\ UNCHANGED tableDefined

\* sendMessage(username, message): the connected check, then db.create
ApiSend ==
  /\ mounted = "no"
  /\ connPc = Idle
  /\ \E a \in ApiArgs, ok \in BOOLEAN :
       IF ~connected
         THEN ret' = "NotConnected" /\ UNCHANGED <<log, lives>>
         ELSE /\ Len(log) < MaxApiMsgs
              /\ IF ok /\ Ready(db)
                   THEN /\ log' = Append(log, Created(a.u, a.m, now))
                        /\ lives' = Notify(lives, Created(a.u, a.m, now))
                        /\ ret' = "ok"
                   ELSE ret' = "DbError" /\ UNCHANGED <<log, lives>>
  /\ UNCHANGED <<handles, now>>
  /\ UNCHANGED svcVars
  /\ UNCHANGED chatVars
  /\ UNCHANGED callVars
  /\ UNCHANGED tableDefined

\* getMessages(): the connected check, then db.select; an error yields []
ApiGetMessages(limit) ==
  /\ mounted = "no"
  /\ connPc = Idle
  /\ asked' = limit
  /\ \E ok \in BOOLEAN :
       IF ~connected
         THEN ret' = "NotConnected" /\ UNCHANGED returned
         ELSE /\ ret' = "ok"
              /\ IF ok /\ Ready(db)
                   THEN \E p \in SelectOrders(log) :
                          returned' = getMessages(Selected(log, p), limit)
                   ELSE returned' = <<>>
  /\ UNCHANGED <<log, handles, lives, now>>
  /\ UNCHANGED svcVars
  /\ UNCHANGED chatVars
  /\ UNCHANGED <<connPc2, thrown>>
  /\ UNCHANGED tableDefined

\* getMessages() with the default limit
ApiGetMessagesDefault == ApiGetMessages(DefaultLimit)

\* subscribeToMessages(callback): the connected check, then db.live
ApiSubscribe ==
  /\ mounted = "no"
  /\ connPc = Idle
  /\ \E ok \in BOOLEAN :
       IF ~connected
         THEN ret' = "NotConnected" /\ UNCHANGED lives
         ELSE /\ Len(lives) < MaxApiSubs
              /\ IF ok /\ Ready(db)
                   THEN lives' = Append(lives, NewLive(db)) /\ ret' = "ok"
                   ELSE ret' = "DbError" /\ UNCHANGED lives
  /\ UNCHANGED <<log, handles, now>>
  /\ UNCHANGED svcVars
  /\ UNCHANGED chatVars
  /\ UNCHANGED callVars
  /\ UNCHANGED tableDefined

\* the kill request of unsubscribe(q) went through
KillOk(q, ok) == ok /\ Ready(db) /\ q \in DOMAIN lives /\ lives[q].h = db

\* what unsubscribe(q) hands to its caller: the catch block swallows the error
unsubscribeOutcomeRethrow(q, ok) == IF KillOk(q, ok) /\ lives[q].alive THEN "void" ELSE "DbError"

unsubscribeOutcome(q, ok) == "void"

\* how often unsubscribe(q) has returned: 0, 1, 2 for twice or more
Again(n) == IF n < 2 THEN n + 1 ELSE 2

\* unsubscribe(queryUuid) with an id that subscribeToMessages returned
ApiUnsubscribe(q) ==
  /\ mounted = "no"
  /\ connPc = Idle
  /\ \E ok \in BOOLEAN :
       /\ lives' = [Killed(lives, q, ok) EXCEPT ![q] = [@ EXCEPT !.unsub = Again(@)]]
       /\ ret' = unsubscribeOutcome(q, ok)
  /\ UNCHANGED <<log, handles, now>>
  /\ UNCHANGED svcVars
  /\ UNCHANGED chatVars
  /\ UNCHANGED callVars
  /\ UNCHANGED tableDefined

ApiUnsubscribeAny == \E q \in DOMAIN lives : ApiUnsubscribe(q)

\* disconnect() without its connected check
ApiDisconnectUnguarded ==
  /\ mounted = "no"
  /\ ~closing
  /\ handles' = [handles EXCEPT ![db] = "closed"]
  /\ lives' = CloseLives(lives, db)
  /\ closing' = TRUE
  /\ UNCHANGED <<log, db, connected, connPc, now, ret>>
  /\ UNCHANGED chatVars
  /\ UNCHANGED callVars
  /\ UNCHANGED tableDefined

\* disconnect() up to await this.db.close()
ApiDisconnect ==
  /\ mounted = "no"
  /\ ~closing
  /\ IF connected
       THEN /\ handles' = [handles EXCEPT ![db] = "closed"]
            /\ lives' = CloseLives(lives, db)
            /\ closing' = TRUE
            /\ UNCHANGED ret
       ELSE /\ ret' = "void"
            /\ UNCHANGED <<handles, lives, closing>>
  /\ UNCHANGED <<log, db, connected, connPc, now>>
  /\ UNCHANGED chatVars
  /\ UNCHANGED callVars
  /\ UNCHANGED tableDefined

\* a live notification arrives: the caller's callback is invoked
DeliverApi ==
  /\ mounted = "no"
  /\ \E q \in DOMAIN lives :
       /\ lives[q].alive
       /\ lives[q].queue # <<>>
       /\ lives' = [lives EXCEPT ![q] = [@ EXCEPT !.queue = Tail(@),
                                                   !.invoked = @ + 1]]
  /\ UNCHANGED <<log, handles, now, ret>>
  /\ UNCHANGED svcVars
  /\ UNCHANGED chatVars
  /\ UNCHANGED callVars
  /\ UNCHANGED tableDefined

NextApi ==
  \/ ApiConnect
  \/ ConnectAdvance
  \/ ConnectFail
  \/ ConnectRetry
  \/ ApiConnectResolved
  \/ ApiConnectRejected
  \/ ApiSend
  \/ ApiGetMessagesDefault
  \/ ApiSubscribe
  \/ ApiUnsubscribeAny
  \/ ApiDisconnect
  \/ DisconnectReturn
  \/ DeliverApi

SpecApi == Init /\ [][NextApi]_vars


\* ======================= two connect() calls that overlap =======================
\* Chat is mounted again while the connect() of its first mount is in flight:
\* the same service object runs a second connect() from its first candidate.
\* There is one such second call, made before any call has returned.
ApiConnectAgain ==
  /\ mounted = "no"
  /\ connPc # Idle
  /\ connPc2 = Idle
  /\ ret = "none"
  /\ AttemptStart(1, <<>>, connPc, connPc2')
  /\ UNCHANGED <<log, lives, connected, connPc, closing, now, ret>>
  /\ UNCHANGED chatVars
  /\ UNCHANGED <<thrown, returned, asked>>
  /\ UNCHANGED tableDefined

Connect2Advance ==
  /\ AttemptAdvance(connPc2, connPc2')
  /\ UNCHANGED <<log, lives, db, connPc, closing, now, ret>>
  /\ UNCHANGED chatVars
  /\ UNCHANGED <<thrown, returned, asked>>
  /\ UNCHANGED tableDefined

Connect2Fail ==
  /\ AttemptFail(connPc2, connPc2')
  /\ UNCHANGED <<log, db, connected, connPc, closing, now, ret>>
  /\ UNCHANGED chatVars
  /\ UNCHANGED <<thrown, returned, asked>>
  /\ UNCHANGED tableDefined

Connect2Retry ==
  /\ connPc2.stage = "closing"
  /\ connPc2.cand < NumConfigs
  /\ AttemptStart(connPc2.cand + 1, connPc2.errors, connPc, connPc2')
  /\ UNCHANGED <<log, lives, connected, connPc, closing, now, ret>>
  /\ UNCHANGED chatVars
  /\ UNCHANGED <<thrown, returned, asked>>
  /\ UNCHANGED tableDefined

ApiConnect2Resolved ==
  /\ initPc.pc = "idle"
  /\ AttemptReturns(connPc2, connPc2')
  /\ ret' = "ok"
  /\ UNCHANGED <<log, handles, lives, db, connected, connPc, closing, now>>
  /\ UNCHANGED chatVars
  /\ UNCHANGED <<thrown, returned, asked>>

ApiConnect2Rejected ==
  /\ initPc.pc = "idle"
  /\ AttemptThrows(connPc2, connPc2')
  /\ ret' = "ConnectError"
  /\ thrown' = finalError(connPc2.errors)
  /\ UNCHANGED <<log, handles, lives, db, connected, connPc, closing, now>>
  /\ UNCHANGED chatVars
  /\ UNCHANGED <<returned, asked>>
  /\ UNCHANGED tableDefined

NextOverlap ==
  \/ ApiConnect
  \/ ApiConnectAgain
  \/ ConnectAdvance
  \/ ConnectFail
  \/ ConnectRetry
  \/ ApiConnectResolved
  \/ ApiConnectRejected
  \/ Connect2Advance
  \/ Connect2Fail
  \/ Connect2Retry
  \/ ApiConnect2Resolved
  \/ ApiConnect2Rejected

SpecOverlap == Init /\ [][NextOverlap]_vars


\* ======================= getMessages on a stored history =======================
\* the histories: every record carries the time of the clock of the page that
\* created it
RECURSIVE Histories(_)
Histories(n) ==
  IF n = 0 THEN {<<>>}
  ELSE Histories(n - 1) \cup
       { Append(h, ChatMessage(n, PeerName, PeerText, t)) :
           h \in {g \in Histories(n - 1) : Len(g) = n - 1}, t \in Times }

Limits == 0..MaxLimit

\* the service is connected to a database that holds a history
InitGet ==
  /\ log \in Histories(MaxStored)
  /\ handles = <<"ready">>
  /\ lives = <<>>
  /\ tableDefined = TRUE
  /\ db = 1
  /\ connected = TRUE
  /\ connPc = Idle
  /\ closing = FALSE
  /\ mounted = "no"
  /\ loading = FALSE
  /\ isConnected = FALSE
  /\ isJoined = FALSE
  /\ username = <<>>
  /\ messages = <<>>
  /\ subscriptionRef = 0
  /\ initPc = [pc |-> "idle", h |-> 0]
  /\ joinCalls = <<>>
  /\ now = 1
  /\ cursor = -1
  /\ ret = "none"
  /\ connPc2 = Idle
  /\ thrown = <<>>
  /\ returned = <<>>
  /\ asked = DefaultLimit

\* getMessages(limit)
ApiGetMessagesLimit == \E limit \in Limits : ApiGetMessages(limit)

NextGet == ApiGetMessagesLimit

SpecGet == InitGet /\ [][NextGet]_vars


\* ======================= properties =======================
\* how often the record with id n stands in the page's message list
Count(n) == Cardinality({i \in DOMAIN messages : messages[i].id = n})

\* no live notification is on its way and no joinChat call is pending
Drained ==
  /\ joinCalls = <<>>
  /\ \A q \in DOMAIN lives : lives[q].queue = <<>>

LiveOnes == {q \in DOMAIN lives : lives[q].alive}

\* C1: once the page has read its history at log position cursor, has joined
\* and every notification has arrived, each message created after the
\* snapshot stands in its list exactly once.
C1_NoLossAtJoin ==
  (mounted = "yes" /\ isJoined /\ cursor >= 0 /\ Drained)
    => \A n \in (cursor + 1)..Len(log) : Count(n) = 1

\* C2: the page's list is in creation order: a message created earlier
\* never stands after one created later.
C2_ListInAppendOrder ==
  \A i, j \in DOMAIN messages : messages[i].id < messages[j].id => i < j

\* C3: no stored message stands twice in the page's list.
C3_NoDuplicate ==
  \A n \in 1..Len(log) : Count(n) <= 1

\* C5: a join submitted with a blank name fails with an AuthError.
C5_BlankJoinAuthError ==
  [][(JoinSubmit /\ Blank(username)) => ret' = "AuthError"]_vars

\* C6: no stored message has an empty username or an empty text.
C6_NoEmptyStored ==
  \A n \in DOMAIN log : log[n].username # <<>> /\ log[n].message # <<>>

\* C7: once the component is unmounted and none of its calls is in flight any
\* more, no connection is open and no live query is registered.
C7_ReleasedAfterUnmount ==
  (mounted = "gone" /\ connPc = Idle /\ initPc.pc = "done" /\ joinCalls = <<>>
     /\ ~closing)
    => (OpenHandles = {} /\ LiveOnes = {})

\* C10: the page has at most one registered live query, and subscriptionRef
\* holds its id.
C10_SingleRegistration ==
  /\ Cardinality(LiveOnes) <= 1
  /\ \A q \in LiveOnes : subscriptionRef = q

\* the session is Active: connected and subscribed
Active == connected /\ LiveOnes # {}

\* C4: a send while the session is not Active fails and stores no message.
C4_SendNeedsActive ==
  [][(ApiSend /\ ~Active) => (log' = log /\ ret' # "ok")]_vars

\* C8: once unsubscribe(q) has returned, the callback of q is not invoked again.
C8_NoCallbackAfterUnsubscribe ==
  [][\A q \in DOMAIN lives :
       lives[q].unsub > 0 => lives'[q].invoked = lives[q].invoked]_vars

\* the service's view of the subscriptions, without the bookkeeping
SubState(ls) ==
  [q \in DOMAIN ls |-> [h |-> ls[q].h, alive |-> ls[q].alive, queue |-> ls[q].queue]]

Phase ==
  IF mounted = "gone" THEN (IF closing THEN "Leaving" ELSE "Disconnected")
  ELSE IF mounted = "yes" /\ isJoined THEN "Active"
  ELSE IF mounted = "yes" /\ isConnected THEN "Joining"
  ELSE "Disconnected"

\* the edges of Disconnected -> Joining -> Active -> Leaving -> Disconnected
ChainEdges ==
  { <<"Disconnected", "Joining">>, <<"Joining", "Active">>,
    <<"Active", "Leaving">>, <<"Leaving", "Disconnected">> }

\* the page is closed before the session is Active
EarlyLeaveEdges ==
  { <<"Disconnected", "Leaving">>, <<"Joining", "Leaving">> }

\* the step that sets isJoined follows a connect() that resolved and registers
\* the live query that subscriptionRef holds from then on
JoinedBySubscription ==
  /\ isConnected
  /\ connected
  /\ connPc = Idle
  /\ initPc.pc = "done"
  /\ Len(lives') = Len(lives) + 1
  /\ lives'[Len(lives')].alive
  /\ subscriptionRef' = Len(lives')

\* C11 as stated: every change of the session's state is an edge of
\* Disconnected -> Joining -> Active -> Leaving -> Disconnected.
C11_StrictChain ==
  [][Phase' # Phase => <<Phase, Phase'>> \in ChainEdges]_vars

\* C11, amended: the session changes state along the chain, or leaves before
\* it is Active; it becomes Active only in a step whose subscription
\* succeeded after connect() had resolved; once the page is gone its session
\* is never Joining or Active again.
C11_SessionOrder ==
  [][/\ Phase' # Phase => <<Phase, Phase'>> \in ChainEdges \cup EarlyLeaveEdges
     /\ (~isJoined /\ isJoined') => JoinedBySubscription
     /\ mounted = "gone" => (mounted' = "gone" /\ isJoined' = isJoined)]_vars

\* the session was Active, the page was closed and its disconnect() returned
C11_Witness ==
  /\ mounted = "gone"
  /\ isJoined
  /\ subscriptionRef # 0
  /\ ~closing
  /\ ~connected

\* ---- the candidates of connect() ----
\* the entries of errors when the candidates 1..n have failed
FailedUpTo(n) == [i \in 1..n |-> ErrorEntry(i)]

\* C12: connect() starts with the first candidate, goes to candidate k + 1
\* only from the catch block of candidate k, runs the requests of a
\* candidate in their order, returns as soon as the setup of a candidate has
\* succeeded and throws only after the last candidate failed; while it works
\* on candidate k every earlier candidate has failed and no other handle is
\* open.
C12_CandidatesInOrder ==
  [][/\ connPc'.cand # connPc.cand =>
          \/ connPc = Idle /\ connPc'.cand = 1 /\ connPc'.stage = "connect"
          \/ /\ connPc.stage = "closing"
             /\ connPc'.cand = connPc.cand + 1
             /\ connPc'.stage = "connect"
          \/ connPc' = Idle
     /\ (connPc'.cand = connPc.cand /\ connPc'.stage # connPc.stage) =>
          \/ connPc.stage # "schema" /\ connPc'.stage = NextStage(connPc.stage)
          \/ connPc'.stage = "closing"
     /\ (connPc # Idle /\ connPc' = Idle) =>
          \/ connPc.stage = "schema" /\ Ready(db) /\ ret' = "ok"
          \/ /\ connPc.stage = "closing"
             /\ connPc.cand = NumConfigs
             /\ ret' = "ConnectError"
     /\ connPc' # Idle =>
          /\ connPc'.cand \in 1..NumConfigs
          /\ connPc'.errors =
               FailedUpTo(IF connPc'.stage = "closing" THEN connPc'.cand
                          ELSE connPc'.cand - 1)
          /\ OpenHandles' \subseteq {connPc'.h}]_vars

\* the setup of the last candidate succeeded after the five before it failed
C12_Witness ==
  /\ connPc.cand = NumConfigs
  /\ connPc.stage = "schema"
  /\ Ready(db)
  /\ connected
  /\ Len(connPc.errors) = NumConfigs - 1

\* C13: the error of a connect() call that failed on every candidate names
\* each of the failed attempts, one entry per candidate.
C13_AggregateError ==
  ret = "ConnectError" => thrown = FailedUpTo(NumConfigs)

\* ---- reconnection ----
\* the connection of the page has been lost
Dropped == mounted = "yes" /\ isConnected /\ connPc = Idle /\ handles[db] = "closed"

\* C14: after the connection of the page was lost, the service has an open
\* connection again at some later time, unless the page is closed first.
C14_ReconnectsAfterDrop ==
  Dropped ~> (Ready(db) \/ mounted # "yes")

\* ---- schema initialization ----
\* C15: on a database that has the table already, the step that settles
\* initializeSchema makes connect() return on that candidate, unless the
\* request failed for another reason than the table being there.
C15_SchemaIdempotent ==
  [][(/\ connPc.stage = "schema"
      /\ tableDefined
      /\ connPc' # connPc
      /\ connPc'.stage = "closing" => connPc'.why = "already exists")
       => (connPc' = Idle /\ ret' = "ok")]_vars

\* ---- getMessages ----
\* the array that getMessages returned leaves out stored messages
Truncated == returned # <<>> /\ Len(returned) < Len(log)

\* C16: the array that getMessages(limit) returned has at most limit
\* messages, stands in creation order, and the call did not end as a plain
\* success when it left out stored messages.
C16_HistoryCapped ==
  ret = "ok" =>
    /\ Len(returned) <= asked
    /\ \A i, j \in DOMAIN returned : i < j => returned[i].id < returned[j].id
    /\ ~Truncated

\* ---- errors of the requests ----
\* the outcomes that tell the caller that the call failed
ErrorOutcomes == {"NotConnected", "DbError", "ConnectError"}

\* C17: a getMessages, sendMessage or unsubscribe call made while the handle
\* of the service cannot serve a request, so that its select, create or kill
\* fails, ends with an error outcome.
C17_NoSilentFailure ==
  [][((ApiGetMessagesDefault \/ ApiSend \/ ApiUnsubscribeAny) /\ ~Ready(db))
       => ret' \in ErrorOutcomes]_vars

\* C18: when connect() throws, this.connected is false.
C18_RejectedMeansNotConnected ==
  [][ApiConnectRejected => ~connected']_vars

\* ---- overlapping connect() calls ----
\* C19: a connect() call that returns leaves this.db a handle on which
\* connect, signin and use succeeded and that is not closed; once no
\* connect() call is running, no handle but this.db is open.
C19_OverlapKeepsOneHandle ==
  [][/\ (ApiConnectResolved \/ ApiConnect2Resolved) => Ready(db')
     /\ (connPc' = Idle /\ connPc2' = Idle) => OpenHandles' \subseteq {db'}]_vars

\* ---- the connected check ----
\* C20: while this.connected is false, sendMessage, getMessages and
\* subscribeToMessages end with 'Database not connected' and leave the
\* database and the service as they are, and disconnect() changes nothing;
\* while it is true, disconnect() closes this.db, and when its close has
\* resolved this.connected is false.
C20_ConnectedCheck ==
  [][/\ (~connected /\ (ApiSend \/ ApiGetMessagesDefault \/ ApiSubscribe)) =>
          /\ ret' = "NotConnected"
          /\ UNCHANGED <<log, handles, lives, tableDefined, db, connected, closing>>
     /\ (~connected /\ ApiDisconnect) =>
          /\ ret' = "void"
          /\ UNCHANGED <<log, handles, lives, tableDefined, db, connected, closing>>
     /\ (connected /\ ApiDisconnect) =>
          /\ handles'[db] = "closed"
          /\ closing'
          /\ UNCHANGED <<log, db, connected>>
     /\ DisconnectReturn =>
          /\ ~connected'
          /\ ~closing'
          /\ UNCHANGED <<log, handles, lives, db>>]_vars

\* a message was sent, so connect() had succeeded; disconnect() has closed the
\* connection and a second disconnect() has returned without doing anything
C20_Witness ==
  /\ Len(log) = 1
  /\ lives = <<>>
  /\ ~connected
  /\ ~closing
  /\ connPc = Idle
  /\ handles[db] = "closed"
  /\ ret = "void"

====
